---- MODULE Spec2Model ----
(***************************************************************************)
(* The approval workflow of the document-approval backend.                 *)
(*                                                                         *)
(* Two collections hold form records: COC (server.js, models/COC.js) and   *)
(* Certification (routes/certification.js, routes/coc.js,                  *)
(* models/Certification.js).  A decide call is an async handler: it awaits *)
(* findById, then runs synchronously up to `await doc.save()`.  The two    *)
(* awaits are the points where handlers of different requests interleave,  *)
(* so a decide call is two steps here: ...Find and ...Save.                *)
(*                                                                         *)
(* A Mongoose document remembers which paths were assigned a new value;    *)
(* save() validates those paths against the schema and sends an update of  *)
(* those paths only ($set for scalars, $push for an array push).  The      *)
(* update is not conditioned on the stage the handler has read.            *)
(***************************************************************************)
EXTENDS Naturals, Sequences, FiniteSets, TLC

\* ------------------------------------------------------------------ bounds
MaxForms == 1        \* form records created, over both collections
MaxInflight == 2     \* decide calls between their findById and their save

\* --------------------------------------------------------------- constants
NULL == "null"

\* models/User.js: role enum.
Roles == {"manager", "finance", "vp", "administrator"}

\* The authenticated principals: req.user = {id, username, role} of a verified
\* token.
Principals ==
    { [id |-> "u1", username |-> "fay", role |-> "finance"],
      [id |-> "u2", username |-> "max", role |-> "manager"],
      [id |-> "u3", username |-> "vic", role |-> "vp"],
      [id |-> "u4", username |-> "ada", role |-> "administrator"] }

\* The principals that submit forms here (any authenticated principal may).
Submitters == {q \in Principals : q.role \in {"manager", "administrator"}}

\* req.body of a decide call: action ("hold" stands for any value other than
\* 'approve' and 'reject') and the reason a rejecting caller may send along.
Bodies ==
    { [action |-> "approve", reason |-> NULL],
      [action |-> "reject", reason |-> NULL],
      [action |-> "reject", reason |-> "missing docs"],
      [action |-> "hold", reason |-> NULL] }

\* models/Certification.js: the general-information paths declared required.
RequiredFields ==
    { "manager", "vendorName", "contractName", "contractPeriod", "contractNumber",
      "invoiceNumber", "invoicePeriodFrom", "invoicePeriodTo", "claimAmountNumber",
      "claimAmountText", "pages", "departmentName", "adminSignature",
      "projectManager", "vpName", "ssvpName" }

\* req.body of /certification/approve beside submissionId (the handler reads
\* submissionId only).
CertBodies ==
    { [action |-> "approve", reason |-> NULL],
      [action |-> "reject", reason |-> "missing docs"],
      [action |-> "hold", reason |-> NULL] }

\* req.body of /api/coc/submit: the number of description entries (0 for a
\* missing or unparsable value), the general-information paths present, and
\* currentApprover (NULL when absent).
DescriptionInputs == {0, 3, 4}

FieldInputs == {RequiredFields, RequiredFields \ {"vendorName"}}

ApproverInputs == {NULL, "manager", "Manager"}

\* models/COC.js: current_approver enum.
CocApproverEnum == {"finance", "manager", "vp", "completed"}

\* models/Certification.js: status enum.
CertStatusEnum ==
    {"Pending Manager", "Pending Finance", "Pending SSVP", "Approved", "Rejected"}

\* routes/certification.js: approvalStages.
approvalStages == <<"manager", "finance", "vp", "administrator">>

\* String.prototype.toLowerCase on the role tokens that occur.
ToLowerCase(s) ==
    CASE s = "Manager" -> "manager"
      [] s = "Finance" -> "finance"
      [] s = "Vp" -> "vp"
      [] s = "Administrator" -> "administrator"
      [] OTHER -> s

\* `Pending ${nextApprover.charAt(0).toUpperCase() + nextApprover.slice(1)}`
nextStatusOf(nextApprover) ==
    CASE nextApprover = "manager" -> "Pending Manager"
      [] nextApprover = "finance" -> "Pending Finance"
      [] nextApprover = "vp" -> "Pending Vp"
      [] nextApprover = "administrator" -> "Pending Administrator"
      [] OTHER -> "Pending"

\* Array.prototype.indexOf on approvalStages, 0-based; -1 is rendered as Len.
indexOf(role) ==
    IF \E i \in 1..Len(approvalStages) : approvalStages[i] = role
    THEN (CHOOSE i \in 1..Len(approvalStages) : approvalStages[i] = role) - 1
    ELSE Len(approvalStages)

\* ------------------------------------------------------------------- state
VARIABLES
    cocs,       \* the COC collection: sequence of documents, _id = position
    certs,      \* the Certification collection
    reqs,       \* the decide calls in flight, one per slot
    last,       \* the response sent most recently: route and status code
    cocHist,    \* per COC record: the decide calls answered 200 (role, action and
                \* the reason sent along), in order
    certHist,   \* per Certification record: the roles of the approve calls
                \* answered 200, in order
    outbox      \* the sendEmail calls of the call answered most recently, in
                \* order: recipient, and whether the call resolved

vars == <<cocs, certs, reqs, last, cocHist, certHist, outbox>>

Slots == 1..MaxInflight

Idle == [pc |-> "idle"]

NoResponse == [route |-> "none", code |-> 0]

Response(route, code) == [route |-> route, code |-> code]

Init ==
    /\ cocs = <<>>
    /\ certs = <<>>
    /\ reqs = [s \in Slots |-> Idle]
    /\ last = NoResponse
    /\ cocHist = <<>>
    /\ certHist = <<>>
    /\ outbox = <<>>

\* ---------------------------------------------------------------- COC path

\* new COC({... status: 'Submitted', ..., current_approver: 'finance'})
NewCOC(username) ==
    [ user_id |-> username,
      status |-> "Submitted",
      finance_status |-> "Pending",
      manager_status |-> "Pending",
      vp_status |-> "Pending",
      current_approver |-> "finance" ]

\* POST /coc-form: Joi validation, then create and save.
PostCocForm(p, bodyValid) ==
    /\ Len(cocs) + Len(certs) < MaxForms
    /\ IF ~bodyValid
       THEN /\ last' = Response("coc-form", 400)
            /\ UNCHANGED <<cocs, cocHist>>
       ELSE /\ cocs' = Append(cocs, NewCOC(p.username))
            /\ cocHist' = Append(cocHist, <<>>)
            /\ last' = Response("coc-form", 201)
    /\ outbox' = <<>>
    /\ UNCHANGED <<certs, reqs, certHist>>

\* Document.save() of a loaded document: the paths whose value differs from the
\* loaded one are written, the others keep what the collection holds now.
SaveModified(stored, loaded, doc) ==
    [f \in DOMAIN stored |-> IF doc[f] # loaded[f] THEN doc[f] ELSE stored[f]]

\* CocApprove with the vp case leaving status as loaded.
CocApproveKeepsStatus(coc, userRole) ==
    CASE userRole = "finance" ->
           [coc EXCEPT !.finance_status = "Approved", !.current_approver = "manager"]
      [] userRole = "manager" ->
           [coc EXCEPT !.manager_status = "Approved", !.current_approver = "vp"]
      [] userRole = "vp" ->
           [coc EXCEPT !.vp_status = "Approved", !.current_approver = "completed"]
      [] OTHER -> coc

\* The approve switch of /approve-coc/:id.
CocApprove(coc, userRole) ==
    CASE userRole = "finance" ->
           [coc EXCEPT !.finance_status = "Approved", !.current_approver = "manager"]
      [] userRole = "manager" ->
           [coc EXCEPT !.manager_status = "Approved", !.current_approver = "vp"]
      [] userRole = "vp" ->
           [coc EXCEPT !.vp_status = "Approved", !.current_approver = "completed",
                       !.status = "Approved"]
      [] OTHER -> coc

\* CocReject handing the form back to the first stage instead of closing it.
CocRejectSendsBack(coc, userRole) ==
    LET marked ==
          CASE userRole = "finance" -> [coc EXCEPT !.finance_status = "Rejected"]
            [] userRole = "manager" -> [coc EXCEPT !.manager_status = "Rejected"]
            [] userRole = "vp" -> [coc EXCEPT !.vp_status = "Rejected"]
            [] OTHER -> coc
    IN  [marked EXCEPT !.status = "Rejected", !.current_approver = "finance"]

\* The reject switch of /approve-coc/:id and the two assignments after it.
CocReject(coc, userRole) ==
    LET marked ==
          CASE userRole = "finance" -> [coc EXCEPT !.finance_status = "Rejected"]
            [] userRole = "manager" -> [coc EXCEPT !.manager_status = "Rejected"]
            [] userRole = "vp" -> [coc EXCEPT !.vp_status = "Rejected"]
            [] OTHER -> coc
    IN  [marked EXCEPT !.status = "Rejected", !.current_approver = "completed"]

\* CocOutcome with the administrator let through the authority check.
CocOutcomeAdminOverride(r) ==
    IF ~r.found THEN 404
    ELSE IF r.doc.current_approver # r.role /\ r.role # "administrator" THEN 403
    ELSE IF r.action \notin {"approve", "reject"} THEN 400
    ELSE IF r.role \notin {"finance", "manager", "vp"} THEN 400
    ELSE 200

\* The status code /approve-coc/:id answers with, from what findById returned.
CocOutcome(r) ==
    IF ~r.found THEN 404
    ELSE IF r.doc.current_approver # r.role THEN 403
    ELSE IF r.action \notin {"approve", "reject"} THEN 400
    ELSE IF r.role \notin {"finance", "manager", "vp"} THEN 400
    ELSE 200

\* COC.findById(id) as a decide call sees it: what the handler holds after the
\* await (found, and the loaded document).
CocLoaded(p, id, body) ==
    [ pc |-> "coc", id |-> id, role |-> p.role, user |-> p.username,
      action |-> body.action, reason |-> body.reason,
      found |-> id \in 1..Len(cocs),
      doc |-> IF id \in 1..Len(cocs) THEN cocs[id] ELSE Idle ]

\* A decide call occupies the lowest free slot while it awaits its save.
FreeSlot(s) ==
    /\ reqs[s].pc = "idle"
    /\ \A t \in Slots : t < s => reqs[t].pc # "idle"

\* POST /approve-coc/:id answered 404, 403 or 400.  The handler touches no
\* document after findById on these paths, so the read and the response are
\* one step.
ApproveCocRefuse(p, id, body) ==
    /\ CocOutcome(CocLoaded(p, id, body)) # 200
    /\ last' = Response("approve-coc", CocOutcome(CocLoaded(p, id, body)))
    /\ outbox' = <<>>
    /\ UNCHANGED <<cocs, certs, reqs, cocHist, certHist>>

\* POST /approve-coc/:id up to `await COC.findById(id)`, on the path that goes
\* on to save.
ApproveCocFind(s, p, id, body) ==
    /\ FreeSlot(s)
    /\ CocOutcome(CocLoaded(p, id, body)) = 200
    /\ reqs' = [reqs EXCEPT ![s] = CocLoaded(p, id, body)]
    /\ UNCHANGED <<cocs, certs, last, cocHist, certHist, outbox>>

\* POST /approve-coc/:id from the return of findById to the response: the
\* switch on the loaded document, `await coc.save()`, res.json.
ApproveCocSave(s) ==
    LET r == reqs[s]
        doc == IF r.action = "approve" THEN CocApprove(r.doc, r.role)
               ELSE CocReject(r.doc, r.role)
    IN  /\ r.pc = "coc"
        /\ cocs' = [cocs EXCEPT ![r.id] = SaveModified(cocs[r.id], r.doc, doc)]
        /\ cocHist' = [cocHist EXCEPT ![r.id] =
                         Append(@, [role |-> r.role, action |-> r.action, reason |-> r.reason])]
        /\ last' = Response("approve-coc", 200)
        /\ outbox' = <<>>
        /\ reqs' = [reqs EXCEPT ![s] = Idle]
        /\ UNCHANGED <<certs, certHist>>

\* PendingCocForms without the status condition of the query.
PendingCocFormsAnyStatus(userRole) ==
    IF userRole \notin {"finance", "manager", "vp"}
    THEN {}
    ELSE {id \in 1..Len(cocs) : cocs[id].current_approver = userRole}

\* GET /pending-coc-forms: the ids of the forms sent to a caller of role
\* userRole; a caller that is no approver is answered 403 and gets none.
PendingCocForms(userRole) ==
    IF userRole \notin {"finance", "manager", "vp"}
    THEN {}
    ELSE {id \in 1..Len(cocs) :
            cocs[id].current_approver = userRole /\ cocs[id].status = "Submitted"}

\* ------------------------------------------------------ Certification path

\* models/Certification.js: descriptions validator, v.length === 4.
DescriptionCount == 4

\* new Certification({...}): the workflow paths of the document; status takes
\* the schema default when the constructor is given none.
NewCertification(submittedBy, status, currentApprover, auditTrail) ==
    [ submittedBy |-> submittedBy,
      status |-> IF status = NULL THEN "Pending Manager" ELSE status,
      currentApprover |-> currentApprover,
      rejectionReason |-> NULL,
      auditTrail |-> auditTrail ]

\* Validation of a new Certification on save: every required path is present,
\* descriptions has four entries, status is in its enum.  fields is the set of
\* general-information paths the constructor was given, descriptions the
\* number of description entries.
CertificationValid(doc, fields, descriptions) ==
    /\ RequiredFields \subseteq fields
    /\ descriptions = DescriptionCount
    /\ doc.submittedBy # NULL
    /\ doc.currentApprover # NULL
    /\ doc.status \in CertStatusEnum

\* Validation of a loaded Certification on save: the modified paths only.
ModifiedValid(loaded, doc) ==
    /\ doc.status # loaded.status => doc.status \in CertStatusEnum
    /\ doc.currentApprover # loaded.currentApprover => doc.currentApprover # NULL

\* A sendEmail call as the outbox records it.
Mail(to, resolved) == [to |-> to, resolved |-> resolved]

\* POST /certification/submit: the manager lookup, the document built from
\* contractName and the workflow fields, save, then the mail to the manager.
CertificationSubmit(p, managerFound, mailOk) ==
    LET submission ==
          NewCertification(p.id, "Pending Manager", "manager",
              << [role |-> "user", action |-> "Submitted", timestamp |-> 1,
                  performedBy |-> p.username, reason |-> NULL] >>)
        valid == CertificationValid(submission, {"contractName"}, 0)
    IN  /\ Len(cocs) + Len(certs) < MaxForms
        /\ IF managerFound /\ valid
           THEN /\ certs' = Append(certs, submission)
                /\ certHist' = Append(certHist, <<>>)
                /\ outbox' = << Mail("manager", mailOk) >>
                /\ last' = Response("certification/submit", IF mailOk THEN 201 ELSE 500)
           ELSE /\ last' = Response("certification/submit", 500)
                /\ outbox' = <<>>
                /\ UNCHANGED <<certs, certHist>>
        /\ UNCHANGED <<cocs, reqs, cocHist>>

\* POST /api/coc/submit: the checks on req.body.descriptions (0 stands for a
\* missing or unparsable value), then new Certification({...data, submittedBy})
\* and save.  fields and currentApprover are what req.body carries.
CocSubmit(p, descriptions, fields, currentApprover) ==
    LET certification == NewCertification(p.username, NULL, currentApprover, <<>>)
    IN  /\ Len(cocs) + Len(certs) < MaxForms
        /\ IF descriptions # DescriptionCount
           THEN /\ last' = Response("coc/submit", 400)
                /\ UNCHANGED <<certs, certHist>>
           ELSE IF ~CertificationValid(certification, fields, descriptions)
           THEN /\ last' = Response("coc/submit", 500)
                /\ UNCHANGED <<certs, certHist>>
           ELSE /\ certs' = Append(certs, certification)
                /\ certHist' = Append(certHist, <<>>)
                /\ last' = Response("coc/submit", 201)
        /\ outbox' = <<>>
        /\ UNCHANGED <<cocs, reqs, cocHist>>

\* Certification.findById(submissionId) as an approve call sees it.  Of req.body
\* the handler takes submissionId alone; an action or a reason sent along is
\* not part of what it holds.
CertLoaded(p, id, body) ==
    [ pc |-> "cert", id |-> id, role |-> ToLowerCase(p.role), user |-> p.username,
      found |-> id \in 1..Len(certs),
      doc |-> IF id \in 1..Len(certs) THEN certs[id] ELSE Idle ]

\* The checks of /certification/approve ahead of the stage branch; 200 stands
\* for passing them.
CertOutcome(r) ==
    IF ~r.found THEN 404
    ELSE IF ToLowerCase(r.doc.currentApprover) # r.role THEN 403
    ELSE IF indexOf(r.role) = Len(approvalStages) THEN 400
    ELSE 200

\* The stage branch of /certification/approve: the document as the handler
\* leaves it before save.  now is Date.now(), the default of the pushed
\* entry's timestamp.
CertApprove(submission, userRole, username, now) ==
    LET currentIndex == indexOf(userRole)
        entry == [role |-> userRole, action |-> "Approved", timestamp |-> now,
                  performedBy |-> username, reason |-> NULL]
    IN  IF currentIndex < Len(approvalStages) - 1
        THEN [submission EXCEPT
                !.status = nextStatusOf(approvalStages[currentIndex + 2]),
                !.currentApprover = approvalStages[currentIndex + 2],
                !.auditTrail = Append(@, entry)]
        ELSE [submission EXCEPT
                !.status = "Approved",
                !.currentApprover = NULL,
                !.auditTrail = Append(@, entry)]

\* SaveCertification writing the audit trail whole, as the handler holds it.
SaveCertificationWholeTrail(stored, loaded, doc) ==
    [ SaveModified(stored, [loaded EXCEPT !.auditTrail = doc.auditTrail], doc)
        EXCEPT !.auditTrail = doc.auditTrail ]

\* Document.save() of a loaded Certification: modified scalar paths are set, the
\* entries pushed onto auditTrail are appended to the stored array.
SaveCertification(stored, loaded, doc) ==
    [ SaveModified(stored, [loaded EXCEPT !.auditTrail = doc.auditTrail], doc)
        EXCEPT !.auditTrail =
          stored.auditTrail \o
            SubSeq(doc.auditTrail, Len(loaded.auditTrail) + 1, Len(doc.auditTrail)) ]

\* POST /certification/approve answered 404, 403 or 400: no document is touched
\* after findById, so the read and the response are one step.
CertApproveRefuse(p, id, body) ==
    /\ CertOutcome(CertLoaded(p, id, body)) # 200
    /\ last' = Response("certification/approve", CertOutcome(CertLoaded(p, id, body)))
    /\ outbox' = <<>>
    /\ UNCHANGED <<cocs, certs, reqs, cocHist, certHist>>

\* POST /certification/approve up to `await Certification.findById(...)`, on
\* the path that goes on to save.
CertApproveFind(s, p, id, body) ==
    /\ FreeSlot(s)
    /\ CertOutcome(CertLoaded(p, id, body)) = 200
    /\ reqs' = [reqs EXCEPT ![s] = CertLoaded(p, id, body)]
    /\ UNCHANGED <<cocs, certs, last, cocHist, certHist, outbox>>

\* The sendEmail call of a /certification/approve handler that throws: its
\* ordinal among the handler's calls, 0 when every call resolves.
MailFailInputs == {0, 1, 2}

\* The recipients /certification/approve mails after its save, in order: the
\* holder of the next stage's role (not after the last stage), then the
\* submitter; each only when the User lookup found someone.
Recipients(submission, userRole, nextFound, ownerFound) ==
    (IF indexOf(userRole) < Len(approvalStages) - 1 /\ nextFound
     THEN << approvalStages[indexOf(userRole) + 2] >> ELSE <<>>)
      \o (IF ownerFound THEN << submission.submittedBy >> ELSE <<>>)

\* The sendEmail calls made for recipients when call number failAt throws: the
\* calls up to that one, the last of them not resolved.
Sent(recipients, failAt) ==
    [ i \in 1..(IF failAt \in 1..Len(recipients) THEN failAt ELSE Len(recipients))
        |-> Mail(recipients[i], i # failAt) ]

\* Date.now() at the push of an audit entry, as the rank of the push among
\* those the collection has stored for the record.
Now(stored) == Len(stored.auditTrail) + 1

\* CertApproveSave with the save undone when a sendEmail call throws.
CertApproveSaveRollsBack(s, nextFound, ownerFound, failAt) ==
    LET r == reqs[s]
        doc == CertApprove(r.doc, r.role, r.user, Now(certs[r.id]))
        recipients == Recipients(r.doc, r.role, nextFound, ownerFound)
    IN  /\ r.pc = "cert"
        /\ IF ~ModifiedValid(r.doc, doc)
           THEN /\ last' = Response("certification/approve", 500)
                /\ outbox' = <<>>
                /\ UNCHANGED <<certs, certHist>>
           ELSE /\ outbox' = Sent(recipients, failAt)
                /\ IF failAt \in 1..Len(recipients)
                   THEN /\ last' = Response("certification/approve", 500)
                        /\ UNCHANGED <<certs, certHist>>
                   ELSE /\ certs' = [certs EXCEPT ![r.id] =
                                       SaveCertification(certs[r.id], r.doc, doc)]
                        /\ last' = Response("certification/approve", 200)
                        /\ certHist' = [certHist EXCEPT ![r.id] = Append(@, r.role)]
        /\ reqs' = [reqs EXCEPT ![s] = Idle]
        /\ UNCHANGED <<cocs, cocHist>>

\* CertApproveSave with the mails sent ahead of the save.
CertApproveSaveMailsFirst(s, nextFound, ownerFound, failAt) ==
    LET r == reqs[s]
        doc == CertApprove(r.doc, r.role, r.user, Now(certs[r.id]))
        recipients == Recipients(r.doc, r.role, nextFound, ownerFound)
    IN  /\ r.pc = "cert"
        /\ outbox' = Sent(recipients, failAt)
        /\ IF failAt \in 1..Len(recipients) \/ ~ModifiedValid(r.doc, doc)
           THEN /\ last' = Response("certification/approve", 500)
                /\ UNCHANGED <<certs, certHist>>
           ELSE /\ certs' = [certs EXCEPT ![r.id] = SaveCertification(certs[r.id], r.doc, doc)]
                /\ last' = Response("certification/approve", 200)
                /\ certHist' = [certHist EXCEPT ![r.id] = Append(@, r.role)]
        /\ reqs' = [reqs EXCEPT ![s] = Idle]
        /\ UNCHANGED <<cocs, cocHist>>

\* POST /certification/approve from the return of findById to the response:
\* the stage branch, `await submission.save()`, the lookups and mails after it.
\* nextFound and ownerFound are the results of the two User lookups, failAt
\* the sendEmail call that throws.
CertApproveSave(s, nextFound, ownerFound, failAt) ==
    LET r == reqs[s]
        doc == CertApprove(r.doc, r.role, r.user, Now(certs[r.id]))
        recipients == Recipients(r.doc, r.role, nextFound, ownerFound)
    IN  /\ r.pc = "cert"
        /\ IF ~ModifiedValid(r.doc, doc)
           THEN /\ last' = Response("certification/approve", 500)
                /\ outbox' = <<>>
                /\ UNCHANGED <<certs, certHist>>
           ELSE /\ certs' = [certs EXCEPT ![r.id] = SaveCertification(certs[r.id], r.doc, doc)]
                /\ outbox' = Sent(recipients, failAt)
                /\ IF failAt \in 1..Len(recipients)
                   THEN /\ last' = Response("certification/approve", 500)
                        /\ UNCHANGED certHist
                   ELSE /\ last' = Response("certification/approve", 200)
                        /\ certHist' = [certHist EXCEPT ![r.id] = Append(@, r.role)]
        /\ reqs' = [reqs EXCEPT ![s] = Idle]
        /\ UNCHANGED <<cocs, cocHist>>

\* ------------------------------------------------------------------- steps
Next ==
    \/ \E p \in Submitters, v \in BOOLEAN : PostCocForm(p, v)
    \/ \E p \in Principals, id \in 1..MaxForms, b \in Bodies : ApproveCocRefuse(p, id, b)
    \/ \E s \in Slots, p \in Principals, id \in 1..MaxForms, b \in Bodies :
         ApproveCocFind(s, p, id, b)
    \/ \E s \in Slots : ApproveCocSave(s)
    \/ \E p \in Submitters, m \in BOOLEAN, ok \in BOOLEAN : CertificationSubmit(p, m, ok)
    \/ \E p \in Submitters, d \in DescriptionInputs, f \in FieldInputs,
          a \in ApproverInputs : CocSubmit(p, d, f, a)
    \/ \E p \in Principals, id \in 1..MaxForms, b \in CertBodies : CertApproveRefuse(p, id, b)
    \/ \E s \in Slots, p \in Principals, id \in 1..MaxForms, b \in CertBodies :
         CertApproveFind(s, p, id, b)
    \/ \E s \in Slots, n \in BOOLEAN, o \in BOOLEAN, f \in MailFailInputs :
         CertApproveSave(s, n, o, f)

Spec == Init /\ [][Next]_vars

\* ------------------------------------------------------------------ claims

\* The stage sequence of the COC path, as the switch of /approve-coc/:id orders it.
CocStages == <<"finance", "manager", "vp">>

TerminalStatus == {"Approved", "Rejected"}

\* The sub-status path of a COC document that belongs to a stage role.
SubStatus(coc, role) ==
    CASE role = "finance" -> coc.finance_status
      [] role = "manager" -> coc.manager_status
      [] role = "vp" -> coc.vp_status

\* What reading a path gives on a document whose schema has no such path.
RejectionReasonOf(doc) ==
    IF "rejectionReason" \in DOMAIN doc THEN doc.rejectionReason ELSE NULL

AuditTrailOf(doc) ==
    IF "auditTrail" \in DOMAIN doc THEN doc.auditTrail ELSE <<>>

\* The roles and actions of the accepted decide calls of a COC record, in order.
CocCalls(id) == [i \in 1..Len(cocHist[id]) |-> <<cocHist[id][i].role, cocHist[id][i].action>>]

\* A step in which the decide call of slot s leaves its save.
CocSaveStep(s) == reqs[s].pc = "coc" /\ reqs'[s].pc = "idle"

CertSaveStep(s) == reqs[s].pc = "cert" /\ reqs'[s].pc = "idle"

ApproveChain == << <<"finance", "approve">>, <<"manager", "approve">>, <<"vp", "approve">> >>

\* C1: a COC record whose accepted decide calls are finance.approve,
\* manager.approve, vp.approve, in that order and no others, has status
\* 'Approved', current_approver 'completed' and all three sub-statuses 'Approved'.
C1_ApproveChainEndsApproved ==
    \A id \in 1..Len(cocs) :
        CocCalls(id) = ApproveChain =>
            /\ cocs[id].status = "Approved"
            /\ cocs[id].current_approver = "completed"
            /\ cocs[id].finance_status = "Approved"
            /\ cocs[id].manager_status = "Approved"
            /\ cocs[id].vp_status = "Approved"

C1_Witness ==
    \E id \in 1..Len(cocs) : CocCalls(id) = ApproveChain /\ cocs[id].status = "Approved"

\* The stage a Certification record is at after an accepted approve by role.
StageAfter(role) ==
    IF indexOf(role) < Len(approvalStages) - 1
    THEN approvalStages[indexOf(role) + 2]
    ELSE NULL

\* C2: every approve call on a Certification record by the role of its current
\* stage is accepted and persisted: the stored record moves to the next stage
\* (to status 'Approved' and the terminal approver after the last stage) and
\* its audit trail grows by the call's entry, so that the four approvals in
\* stage order end in 'Approved' with a trail of four entries.
C2_EachStageApprovePersists ==
    [][ \A s \in Slots :
          CertSaveStep(s) =>
            LET id == reqs[s].id
                role == reqs[s].role
            IN  /\ certs'[id].currentApprover = StageAfter(role)
                /\ StageAfter(role) = NULL => certs'[id].status = "Approved"
                /\ Len(certs'[id].auditTrail) = Len(certs[id].auditTrail) + 1 ]_vars

ForbiddenStep == last' # last /\ last'.code = 403

C5_TerminalRefusesDecide ==
    /\ \A id \in 1..Len(cocs), p \in Principals, b \in Bodies :
         cocs[id].status \in TerminalStatus => CocOutcome(CocLoaded(p, id, b)) # 200
    /\ \A id \in 1..Len(certs), p \in Principals, b \in CertBodies :
         certs[id].status \in TerminalStatus => CertOutcome(CertLoaded(p, id, b)) # 200

\* C6: of two decide calls that loaded the same record at the same stage, the
\* one that comes to its save after the stored stage has changed is answered
\* with a conflict and leaves the stored record as the first one made it.
C6_LoserObservesConflict ==
    [][ /\ \A s \in Slots :
             (CocSaveStep(s)
                /\ cocs[reqs[s].id].current_approver # reqs[s].doc.current_approver)
               => (last'.code = 409 /\ cocs' = cocs)
        /\ \A s \in Slots :
             (CertSaveStep(s)
                /\ certs[reqs[s].id].currentApprover # reqs[s].doc.currentApprover)
               => (last'.code = 409 /\ certs' = certs) ]_vars

\* C7: a stored COC record has status 'Approved' or 'Rejected' exactly when its
\* current_approver is 'completed'.
C7_TerminalIffCompleted ==
    \A id \in 1..Len(cocs) :
        cocs[id].status \in TerminalStatus <=> cocs[id].current_approver = "completed"

\* The stage after role in the COC sequence ('completed' after the last).
CocStageAfter(role) ==
    CASE role = "finance" -> "manager"
      [] role = "manager" -> "vp"
      [] role = "vp" -> "completed"

\* C8: the stored current approver is a stage of the record's form type or the
\* terminal sentinel ('completed' for COC, null for Certification), and the
\* save of an approve by a stage that is not the last leaves the next stage of
\* the sequence stored.
C8_ApproverInSequence ==
    /\ [](/\ \A id \in 1..Len(cocs) : cocs[id].current_approver \in CocApproverEnum
          /\ \A id \in 1..Len(certs) :
               certs[id].currentApprover
                 \in {approvalStages[i] : i \in 1..Len(approvalStages)} \cup {NULL})
    /\ [][ /\ \A s \in Slots :
                (CocSaveStep(s) /\ reqs[s].action = "approve" /\ reqs[s].role # "vp")
                  => cocs'[reqs[s].id].current_approver = CocStageAfter(reqs[s].role)
           /\ \A s \in Slots :
                (CertSaveStep(s) /\ certs' # certs /\ StageAfter(reqs[s].role) # NULL)
                  => certs'[reqs[s].id].currentApprover = StageAfter(reqs[s].role) ]_vars

\* C9: a COC record whose latest accepted decide call is a reject carries the
\* reason sent with that call as its rejectionReason.
C9_RejectionReasonStored ==
    \A id \in 1..Len(cocs) :
        (Len(cocHist[id]) > 0 /\ cocHist[id][Len(cocHist[id])].action = "reject")
          => RejectionReasonOf(cocs[id]) = cocHist[id][Len(cocHist[id])].reason

\* The decision entries of an audit trail (the 'Submitted' entry is none).
RECURSIVE Decisions(_)
Decisions(trail) ==
    IF trail = <<>> THEN 0
    ELSE Decisions(Tail(trail)) + (IF Head(trail).action = "Submitted" THEN 0 ELSE 1)

\* C10: a record's audit trail holds one decision entry per accepted decide
\* call: k calls answered 200 leave exactly k decision entries.
C10_OneEntryPerAcceptedCall ==
    /\ \A id \in 1..Len(cocs) : Decisions(AuditTrailOf(cocs[id])) = Len(cocHist[id])
    /\ \A id \in 1..Len(certs) : Decisions(AuditTrailOf(certs[id])) = Len(certHist[id])

\* a is an initial segment of b.
IsPrefix(a, b) == Len(a) <= Len(b) /\ SubSeq(b, 1, Len(a)) = a

\* C11: the audit trail of a Certification record is append-only and keeps its
\* order: every step, the saves of interleaved approve calls included, leaves
\* the trail stored before it as a prefix of the trail stored after it.
C11_AuditTrailAppendOnly ==
    [][ \A id \in 1..Len(certs) :
          IsPrefix(certs[id].auditTrail, certs'[id].auditTrail) ]_vars

C11_Witness ==
    \E id \in 1..Len(certs) :
        /\ Len(certs[id].auditTrail) = 2
        /\ certs[id].auditTrail[1].timestamp < certs[id].auditTrail[2].timestamp
        /\ \A s \in Slots : reqs[s].pc = "idle"

\* Some sendEmail call of the call answered most recently threw.
NotifierFailed(box) == \E i \in 1..Len(box) : ~box[i].resolved

\* C12: a call whose state change is saved and whose sendEmail then throws is
\* still answered with its success code: 200 for an approve, 201 for a submit.
C12_NotifierFailureHidden ==
    [][ /\ \A s \in Slots :
             (CertSaveStep(s) /\ certs' # certs /\ NotifierFailed(outbox'))
               => last'.code = 200
        /\ (Len(certs') > Len(certs) /\ NotifierFailed(outbox'))
               => last'.code = 201 ]_vars

\* C13: a sendEmail failure after submission.save() has succeeded in an approve
\* call undoes nothing: the step leaves the record stored with the advanced
\* status, the advanced currentApprover and the call's audit entry appended.
C13_NotifierFailureKeepsCommit ==
    [][ \A s \in Slots :
          (CertSaveStep(s) /\ NotifierFailed(outbox')) =>
            LET id == reqs[s].id
                role == reqs[s].role
                trail == certs'[id].auditTrail
            IN  /\ certs'[id].currentApprover = StageAfter(role)
                /\ certs'[id].status = nextStatusOf(StageAfter(role))
                /\ Len(trail) = Len(certs[id].auditTrail) + 1
                /\ trail[Len(trail)].role = role
                /\ trail[Len(trail)].action = "Approved"
                /\ trail[Len(trail)].performedBy = reqs[s].user ]_vars

C13_Witness ==
    /\ last = Response("certification/approve", 500)
    /\ NotifierFailed(outbox)
    /\ \E id \in 1..Len(certs) :
         /\ certs[id].status = "Pending Finance"
         /\ certs[id].currentApprover = "finance"
         /\ Len(certs[id].auditTrail) = 1

\* C14: a call whose User lookup finds nobody holding the role that acts next
\* still commits its state change: /certification/submit with no manager found
\* creates the record in its initial state, and /certification/approve with no
\* holder of the next stage's role found stores the advanced record.
C14_MissingRoleHolderStillCommits ==
    [][ /\ \A p \in Submitters, ok \in BOOLEAN :
             CertificationSubmit(p, FALSE, ok) =>
               /\ Len(certs') = Len(certs) + 1
               /\ certs'[Len(certs')].status = "Pending Manager"
               /\ certs'[Len(certs')].currentApprover = "manager"
        /\ \A s \in Slots, o \in BOOLEAN, f \in MailFailInputs :
             (CertApproveSave(s, FALSE, o, f)
                /\ ModifiedValid(reqs[s].doc,
                                 CertApprove(reqs[s].doc, reqs[s].role, reqs[s].user,
                                             Now(certs[reqs[s].id])))) =>
               /\ certs'[reqs[s].id].currentApprover = StageAfter(reqs[s].role)
               /\ Len(certs'[reqs[s].id].auditTrail)
                    = Len(certs[reqs[s].id].auditTrail) + 1 ]_vars

\* C15: a record created by a successful submission starts owned by the
\* submitting principal, at the first stage of its form type ('finance' for
\* COC, 'manager' for Certification), with that stage's pending status
\* ('Submitted' is the COC label, 'Pending Manager' the Certification one) and,
\* for COC, with the three sub-statuses 'Pending'.
C15_CreatedAtFirstStage ==
    [][ /\ \A p \in Submitters, v \in BOOLEAN :
             (PostCocForm(p, v) /\ Len(cocs') > Len(cocs)) =>
               LET coc == cocs'[Len(cocs')]
               IN  /\ coc.user_id = p.username
                   /\ coc.current_approver = CocStages[1]
                   /\ coc.status = "Submitted"
                   /\ \A i \in 1..Len(CocStages) : SubStatus(coc, CocStages[i]) = "Pending"
        /\ \A p \in Submitters, m \in BOOLEAN, ok \in BOOLEAN :
             (CertificationSubmit(p, m, ok) /\ Len(certs') > Len(certs)) =>
               LET submission == certs'[Len(certs')]
               IN  /\ submission.submittedBy = p.id
                   /\ submission.currentApprover = approvalStages[1]
                   /\ submission.status = nextStatusOf(approvalStages[1])
        /\ \A p \in Submitters, d \in DescriptionInputs, f \in FieldInputs,
              a \in ApproverInputs :
             (CocSubmit(p, d, f, a) /\ Len(certs') > Len(certs)) =>
               LET certification == certs'[Len(certs')]
               IN  /\ certification.submittedBy = p.username
                   /\ certification.currentApprover = approvalStages[1]
                   /\ certification.status = nextStatusOf(approvalStages[1]) ]_vars

\* C16: the save of an accepted approve by a stage that is not the last leaves
\* the record stored at the next stage with that stage's pending status (a COC
\* stays 'Submitted', a Certification gets 'Pending <Stage>'), and status
\* becomes 'Approved' only in the save of an accepted approve by the last stage.
C16_ApproveAdvancesToNextStage ==
    [][ /\ \A s \in Slots :
             (CocSaveStep(s) /\ reqs[s].action = "approve"
                /\ reqs[s].role # CocStages[Len(CocStages)]) =>
               /\ cocs'[reqs[s].id].current_approver = CocStageAfter(reqs[s].role)
               /\ cocs'[reqs[s].id].status = "Submitted"
        /\ \A s \in Slots :
             (CertSaveStep(s) /\ last'.code = 200 /\ StageAfter(reqs[s].role) # NULL) =>
               /\ certs'[reqs[s].id].currentApprover = StageAfter(reqs[s].role)
               /\ certs'[reqs[s].id].status = nextStatusOf(StageAfter(reqs[s].role))
        /\ \A id \in 1..Len(cocs) :
             (cocs[id].status # "Approved" /\ cocs'[id].status = "Approved") =>
               \E s \in Slots :
                   /\ CocSaveStep(s) /\ reqs[s].id = id
                   /\ reqs[s].action = "approve"
                   /\ reqs[s].role = CocStages[Len(CocStages)]
        /\ \A id \in 1..Len(certs) :
             (certs[id].status # "Approved" /\ certs'[id].status = "Approved") =>
               \E s \in Slots :
                   /\ CertSaveStep(s) /\ reqs[s].id = id
                   /\ StageAfter(reqs[s].role) = NULL ]_vars

\* A body whose action is neither 'approve' nor 'reject'.
InvalidBody == [action |-> "hold", reason |-> NULL]

\* C17: in every state, a decide call on an id no record has would be answered
\* 404, and a decide call with an action other than 'approve' and 'reject'
\* would be answered 400, whoever calls; and a call answered 404 or 400 leaves
\* both collections as they were.
C17_UnknownIdAndInvalidActionRefused ==
    /\ [](/\ \A p \in Principals, b \in Bodies :
               CocOutcome(CocLoaded(p, Len(cocs) + 1, b)) = 404
          /\ \A p \in Principals, b \in CertBodies :
               CertOutcome(CertLoaded(p, Len(certs) + 1, b)) = 404
          /\ \A p \in Principals, id \in 1..Len(cocs) :
               CocOutcome(CocLoaded(p, id, InvalidBody)) = 400
          /\ \A p \in Principals, id \in 1..Len(certs) :
               CertOutcome(CertLoaded(p, id, InvalidBody)) = 400)
    /\ [][(last' # last /\ last'.code \in {404, 400})
            => (cocs' = cocs /\ certs' = certs)]_vars

\* The recipients of the sendEmail calls a step makes, in order.
MailedTo(box) == [i \in 1..Len(box) |-> box[i].to]

\* A step that makes sendEmail calls has stored the state change they report:
\* an approve step has written its record, any other such step has created one.
MailsFollowSave ==
    /\ \A s \in Slots : (CertSaveStep(s) /\ outbox' # <<>>) => certs'[reqs[s].id] # certs[reqs[s].id]
    /\ (outbox' # <<>> /\ outbox' # outbox /\ \A s \in Slots : ~CertSaveStep(s))
         => Len(certs') > Len(certs)

PendingFor(id) == {role \in Roles : id \in PendingCocForms(role)}

\* C19: in every state, a COC record whose status is neither 'Approved' nor
\* 'Rejected' is returned by /pending-coc-forms to its current approver and to
\* no other role, and a record that is 'Approved' or 'Rejected' to no role.
C19_PendingListedForCurrentApprover ==
    \A id \in 1..Len(cocs) :
        PendingFor(id) = IF cocs[id].status \in TerminalStatus
                         THEN {}
                         ELSE {cocs[id].current_approver}

C19_Witness ==
    \E id \in 1..Len(cocs) :
        /\ cocs[id].status = "Rejected"
        /\ cocs[id].current_approver = "manager"
        /\ PendingFor(id) = {}
        /\ Len(cocHist[id]) = 2

\* The stages of the COC sequence whose sub-status a step changes on record id.
StagesChanged(id) ==
    {i \in 1..Len(CocStages) :
       SubStatus(cocs'[id], CocStages[i]) # SubStatus(cocs[id], CocStages[i])}

\* C20: no stage of a COC record is skipped and each takes its own accepted
\* call: in every state a stage's sub-status differs from 'Pending' only if all
\* earlier stages are 'Approved', and status is 'Approved' only if all three
\* sub-statuses are; and the save of an accepted decide call changes the
\* sub-status of exactly one stage.
C20_NoStageSkipped ==
    /\ [](\A id \in 1..Len(cocs) :
            /\ \A i \in 1..Len(CocStages) :
                 SubStatus(cocs[id], CocStages[i]) # "Pending" =>
                   \A j \in 1..(i - 1) : SubStatus(cocs[id], CocStages[j]) = "Approved"
            /\ cocs[id].status = "Approved" =>
                 \A i \in 1..Len(CocStages) : SubStatus(cocs[id], CocStages[i]) = "Approved")
    /\ [][ \A s \in Slots :
             CocSaveStep(s) => Cardinality(StagesChanged(reqs[s].id)) = 1 ]_vars

\* The current approver acts in the end: a decide call that can be taken up is
\* taken up, and a call that awaits its save comes to it.
FairSpec ==
    /\ Spec
    /\ WF_vars(\E s \in Slots, p \in Principals, id \in 1..MaxForms, b \in Bodies :
                  ApproveCocFind(s, p, id, b))
    /\ WF_vars(\E s \in Slots : ApproveCocSave(s))

\* The termination half of C21, which holds under FairSpec: every submitted
\* COC record comes to current_approver 'completed'.
CocEventuallyCompleted ==
    \A id \in 1..MaxForms :
        [](id <= Len(cocs) => <>(id <= Len(cocs) /\ cocs[id].current_approver = "completed"))

\* C21: every submitted COC record reaches a terminal state after finitely
\* many accepted decisions; the bound the claim gives for them: in every
\* execution, interleaved calls included, a record takes at most as many
\* accepted decide calls as its sequence has stages (3).
C21_AtMostOneDecisionPerStage ==
    \A id \in 1..Len(cocs) : Len(cocHist[id]) <= Len(CocStages)

====
